---- MODULE Spec2Model ----
(***************************************************************************)
(* Model of the tic-tac-toe game state machine of                          *)
(* program-native/src/game.rs: the Game record and its operations create,  *)
(* join, next_move and keep_alive.                                         *)
(*                                                                         *)
(* Pubkeys are opaque 32-byte tokens compared only for equality; they are  *)
(* modelled as the numbers 0..MaxPubkey, 0 standing for Pubkey::default()  *)
(* (all zero bytes), the value player_o holds before anybody joined.       *)
(* Timestamps are u64 values that the code only compares and stores; they  *)
(* range over 0..MaxTime.  The coordinates of next_move are usize values   *)
(* over 0..MaxCoord, which includes coordinates outside the 3x3 board;     *)
(* y * 3 + x stays far below the width of usize.                           *)
(***************************************************************************)
EXTENDS Integers, Sequences, FiniteSets

MaxPubkey == 1
MaxTime == 1
MaxCoord == 3

Pubkeys == 0..MaxPubkey
Timestamps == 0..MaxTime
Coords == 0..MaxCoord

BOARD_ITEM_FREE == 0
BOARD_ITEM_X == 1
BOARD_ITEM_O == 2

GameState == {"Waiting", "XMove", "OMove", "XWon", "OWon", "Draw"}

ProgramError ==
    {"InvalidMove", "GameInProgress", "PlayerNotFound", "NotYourTurn",
     "InvalidTimestamp"}

BoardLen == 9

VARIABLES
    keep_alive,   \* [u64; 2], indexed 0 (player X) and 1 (player O)
    game_state,   \* GameState
    player_x,     \* Pubkey
    player_o,     \* Pubkey
    board         \* [u8; 9], indexed 0..8

vars == <<keep_alive, game_state, player_x, player_o, board>>

\* struct Game: the record the operations work on.
Game ==
    [keep_alive : [0..1 -> Timestamps],
     game_state : GameState,
     player_x : Pubkeys,
     player_o : Pubkeys,
     board : [0..(BoardLen - 1) -> {BOARD_ITEM_FREE, BOARD_ITEM_X, BOARD_ITEM_O}]]

\* The Game the variables hold (the self of the methods).
self ==
    [keep_alive |-> keep_alive,
     game_state |-> game_state,
     player_x |-> player_x,
     player_o |-> player_o,
     board |-> board]

\* A call on a &mut Game yields the Game it leaves behind and the Result it
\* returns: "Ok" or a ProgramError.
Ok(g) == [game |-> g, ret |-> "Ok"]

Err(g, e) == [game |-> g, ret |-> e]

\* Game::default(), from the derive and from impl Default for GameState.
GameDefault ==
    [keep_alive |-> [i \in 0..1 |-> 0],
     game_state |-> "Waiting",
     player_x |-> 0,
     player_o |-> 0,
     board |-> [i \in 0..(BoardLen - 1) |-> BOARD_ITEM_FREE]]

\* Game::create
create(player) == [GameDefault EXCEPT !.player_x = player]

\* join as it would be with the timestamp validated before anything is
\* assigned.
join_validate_first(g, player, timestamp) ==
    IF g.game_state = "Waiting"
    THEN IF timestamp <= g.keep_alive[1]
         THEN Err(g, "InvalidTimestamp")
         ELSE Ok([g EXCEPT !.player_o = player, !.game_state = "XMove",
                           !.keep_alive[1] = timestamp])
    ELSE Err(g, "GameInProgress")

\* join as it would be if it were open until the first move.
join_until_first_move(g, player, timestamp) ==
    IF g.game_state = "Waiting"
       \/ (g.game_state = "XMove"
           /\ \A i \in 0..(BoardLen - 1) : g.board[i] = BOARD_ITEM_FREE)
    THEN LET g1 == [g EXCEPT !.player_o = player, !.game_state = "XMove"] IN
         IF timestamp <= g1.keep_alive[1]
         THEN Err(g1, "InvalidTimestamp")
         ELSE Ok([g1 EXCEPT !.keep_alive[1] = timestamp])
    ELSE Err(g, "GameInProgress")

\* Game::join: player_o and game_state are assigned before the timestamp is
\* looked at.
join(g, player, timestamp) ==
    IF g.game_state = "Waiting"
    THEN LET g1 == [g EXCEPT !.player_o = player, !.game_state = "XMove"] IN
         IF timestamp <= g1.keep_alive[1]
         THEN Err(g1, "InvalidTimestamp")
         ELSE Ok([g1 EXCEPT !.keep_alive[1] = timestamp])
    ELSE Err(g, "GameInProgress")

\* same as it would be with any() in place of all().
same_any(x_or_o, triple) == \E i \in 1..Len(triple) : triple[i] = x_or_o

\* Game::same
same(x_or_o, triple) == \A i \in 1..Len(triple) : triple[i] = x_or_o

\* winner as it would be with the second diagonal left out.
winner_one_diagonal(x_or_o, b) ==
    \/ same(x_or_o, <<b[0], b[1], b[2]>>)
    \/ same(x_or_o, <<b[3], b[4], b[5]>>)
    \/ same(x_or_o, <<b[6], b[7], b[8]>>)
    \/ same(x_or_o, <<b[0], b[3], b[6]>>)
    \/ same(x_or_o, <<b[1], b[4], b[7]>>)
    \/ same(x_or_o, <<b[2], b[5], b[8]>>)
    \/ same(x_or_o, <<b[0], b[4], b[8]>>)

\* The winner expression of next_move, over the board b.
winner(x_or_o, b) ==
    \/ same(x_or_o, <<b[0], b[1], b[2]>>)
    \/ same(x_or_o, <<b[3], b[4], b[5]>>)
    \/ same(x_or_o, <<b[6], b[7], b[8]>>)
    \/ same(x_or_o, <<b[0], b[3], b[6]>>)
    \/ same(x_or_o, <<b[1], b[4], b[7]>>)
    \/ same(x_or_o, <<b[2], b[5], b[8]>>)
    \/ same(x_or_o, <<b[0], b[4], b[8]>>)
    \/ same(x_or_o, <<b[2], b[4], b[6]>>)

\* full as it would be with the last cell left out of the test.
full_but_last(b) == \A i \in 0..(BoardLen - 2) : b[i] # BOARD_ITEM_FREE

\* The board.iter().all(|&p| p != BOARD_ITEM_FREE) test of next_move.
full(b) == \A i \in 0..(BoardLen - 1) : b[i] # BOARD_ITEM_FREE

\* place as it would be with the draw test ahead of the winner test.
place_draw_first(g, board_index, x_or_o, won_state) ==
    LET g1 == [g EXCEPT !.board[board_index] = x_or_o] IN
    IF full(g1.board)
    THEN Ok([g1 EXCEPT !.game_state = "Draw"])
    ELSE IF winner(x_or_o, g1.board)
         THEN Ok([g1 EXCEPT !.game_state = won_state])
         ELSE Ok(g1)

\* place as it would be without the assignment to the board.
place_no_mark(g, board_index, x_or_o, won_state) ==
    IF winner(x_or_o, g.board)
    THEN Ok([g EXCEPT !.game_state = won_state])
    ELSE IF full(g.board)
         THEN Ok([g EXCEPT !.game_state = "Draw"])
         ELSE Ok(g)

\* The tail of next_move, from the assignment to the board on; g holds the
\* turn flipped to the opponent already.
place(g, board_index, x_or_o, won_state) ==
    LET g1 == [g EXCEPT !.board[board_index] = x_or_o] IN
    IF winner(x_or_o, g1.board)
    THEN Ok([g1 EXCEPT !.game_state = won_state])
    ELSE IF full(g1.board)
         THEN Ok([g1 EXCEPT !.game_state = "Draw"])
         ELSE Ok(g1)

\* next_move as it would be without the comparison of the player in OMove.
next_move_any_player(g, player, x, y) ==
    LET board_index == y * 3 + x IN
    IF board_index >= BoardLen \/ g.board[board_index] # BOARD_ITEM_FREE
    THEN Err(g, "InvalidMove")
    ELSE CASE g.game_state = "XMove" ->
                IF player # g.player_x
                THEN Err(g, "PlayerNotFound")
                ELSE place([g EXCEPT !.game_state = "OMove"], board_index,
                           BOARD_ITEM_X, "XWon")
           [] g.game_state = "OMove" ->
                place([g EXCEPT !.game_state = "XMove"], board_index,
                      BOARD_ITEM_O, "OWon")
           [] OTHER -> Err(g, "NotYourTurn")

\* next_move as it would be with the turn flipped ahead of the comparison of
\* the player.
next_move_flip_first(g, player, x, y) ==
    LET board_index == y * 3 + x IN
    IF board_index >= BoardLen \/ g.board[board_index] # BOARD_ITEM_FREE
    THEN Err(g, "InvalidMove")
    ELSE CASE g.game_state = "XMove" ->
                IF player # g.player_x
                THEN Err([g EXCEPT !.game_state = "OMove"], "PlayerNotFound")
                ELSE place([g EXCEPT !.game_state = "OMove"], board_index,
                           BOARD_ITEM_X, "XWon")
           [] g.game_state = "OMove" ->
                IF player # g.player_o
                THEN Err([g EXCEPT !.game_state = "XMove"], "PlayerNotFound")
                ELSE place([g EXCEPT !.game_state = "XMove"], board_index,
                           BOARD_ITEM_O, "OWon")
           [] OTHER -> Err(g, "NotYourTurn")

\* next_move as it would be if O's move had to come from an identity other
\* than player_x.
next_move_distinct_players(g, player, x, y) ==
    LET board_index == y * 3 + x IN
    IF board_index >= BoardLen \/ g.board[board_index] # BOARD_ITEM_FREE
    THEN Err(g, "InvalidMove")
    ELSE CASE g.game_state = "XMove" ->
                IF player # g.player_x
                THEN Err(g, "PlayerNotFound")
                ELSE place([g EXCEPT !.game_state = "OMove"], board_index,
                           BOARD_ITEM_X, "XWon")
           [] g.game_state = "OMove" ->
                IF player # g.player_o \/ player = g.player_x
                THEN Err(g, "PlayerNotFound")
                ELSE place([g EXCEPT !.game_state = "XMove"], board_index,
                           BOARD_ITEM_O, "OWon")
           [] OTHER -> Err(g, "NotYourTurn")

\* next_move as it would be with O's arm taken for every state but XMove.
next_move_else_o(g, player, x, y) ==
    LET board_index == y * 3 + x IN
    IF board_index >= BoardLen \/ g.board[board_index] # BOARD_ITEM_FREE
    THEN Err(g, "InvalidMove")
    ELSE CASE g.game_state = "XMove" ->
                IF player # g.player_x
                THEN Err(g, "PlayerNotFound")
                ELSE place([g EXCEPT !.game_state = "OMove"], board_index,
                           BOARD_ITEM_X, "XWon")
           [] OTHER ->
                IF player # g.player_o
                THEN Err(g, "PlayerNotFound")
                ELSE place([g EXCEPT !.game_state = "XMove"], board_index,
                           BOARD_ITEM_O, "OWon")

\* next_move as it would be if X's arm did not hand the turn to O.
next_move_x_keeps_turn(g, player, x, y) ==
    LET board_index == y * 3 + x IN
    IF board_index >= BoardLen \/ g.board[board_index] # BOARD_ITEM_FREE
    THEN Err(g, "InvalidMove")
    ELSE CASE g.game_state = "XMove" ->
                IF player # g.player_x
                THEN Err(g, "PlayerNotFound")
                ELSE place(g, board_index, BOARD_ITEM_X, "XWon")
           [] g.game_state = "OMove" ->
                IF player # g.player_o
                THEN Err(g, "PlayerNotFound")
                ELSE place([g EXCEPT !.game_state = "XMove"], board_index,
                           BOARD_ITEM_O, "OWon")
           [] OTHER -> Err(g, "NotYourTurn")

\* next_move as it would be without the test that the cell is free.
next_move_overwrite(g, player, x, y) ==
    LET board_index == y * 3 + x IN
    IF board_index >= BoardLen
    THEN Err(g, "InvalidMove")
    ELSE CASE g.game_state = "XMove" ->
                IF player # g.player_x
                THEN Err(g, "PlayerNotFound")
                ELSE place([g EXCEPT !.game_state = "OMove"], board_index,
                           BOARD_ITEM_X, "XWon")
           [] g.game_state = "OMove" ->
                IF player # g.player_o
                THEN Err(g, "PlayerNotFound")
                ELSE place([g EXCEPT !.game_state = "XMove"], board_index,
                           BOARD_ITEM_O, "OWon")
           [] OTHER -> Err(g, "NotYourTurn")

\* next_move as it would be with the match on the state ahead of the test of
\* the cell.
next_move_phase_first(g, player, x, y) ==
    LET board_index == y * 3 + x
        invalid ==
            board_index >= BoardLen \/ g.board[board_index] # BOARD_ITEM_FREE
    IN
    CASE g.game_state = "XMove" ->
           IF player # g.player_x
           THEN Err(g, "PlayerNotFound")
           ELSE IF invalid
                THEN Err(g, "InvalidMove")
                ELSE place([g EXCEPT !.game_state = "OMove"], board_index,
                           BOARD_ITEM_X, "XWon")
      [] g.game_state = "OMove" ->
           IF player # g.player_o
           THEN Err(g, "PlayerNotFound")
           ELSE IF invalid
                THEN Err(g, "InvalidMove")
                ELSE place([g EXCEPT !.game_state = "XMove"], board_index,
                           BOARD_ITEM_O, "OWon")
      [] OTHER -> Err(g, "NotYourTurn")

\* next_move as it would be with the two won states swapped between the arms.
next_move_won_swapped(g, player, x, y) ==
    LET board_index == y * 3 + x IN
    IF board_index >= BoardLen \/ g.board[board_index] # BOARD_ITEM_FREE
    THEN Err(g, "InvalidMove")
    ELSE CASE g.game_state = "XMove" ->
                IF player # g.player_x
                THEN Err(g, "PlayerNotFound")
                ELSE place([g EXCEPT !.game_state = "OMove"], board_index,
                           BOARD_ITEM_X, "OWon")
           [] g.game_state = "OMove" ->
                IF player # g.player_o
                THEN Err(g, "PlayerNotFound")
                ELSE place([g EXCEPT !.game_state = "XMove"], board_index,
                           BOARD_ITEM_O, "XWon")
           [] OTHER -> Err(g, "NotYourTurn")

\* Game::next_move
next_move(g, player, x, y) ==
    LET board_index == y * 3 + x IN
    IF board_index >= BoardLen \/ g.board[board_index] # BOARD_ITEM_FREE
    THEN Err(g, "InvalidMove")
    ELSE CASE g.game_state = "XMove" ->
                IF player # g.player_x
                THEN Err(g, "PlayerNotFound")
                ELSE place([g EXCEPT !.game_state = "OMove"], board_index,
                           BOARD_ITEM_X, "XWon")
           [] g.game_state = "OMove" ->
                IF player # g.player_o
                THEN Err(g, "PlayerNotFound")
                ELSE place([g EXCEPT !.game_state = "XMove"], board_index,
                           BOARD_ITEM_O, "OWon")
           [] OTHER -> Err(g, "NotYourTurn")

\* keep_alive as it would be without the arm for the finished states.
keep_alive_every_state(g, player, timestamp) ==
    IF player = g.player_x
    THEN IF timestamp <= g.keep_alive[0]
         THEN Err(g, "InvalidTimestamp")
         ELSE Ok([g EXCEPT !.keep_alive[0] = timestamp])
    ELSE IF player = g.player_o
         THEN IF timestamp <= g.keep_alive[1]
              THEN Err(g, "InvalidTimestamp")
              ELSE Ok([g EXCEPT !.keep_alive[1] = timestamp])
         ELSE Err(g, "PlayerNotFound")

\* keep_alive as it would be with < in place of <= in the two comparisons.
keep_alive_not_strict(g, player, timestamp) ==
    IF g.game_state \in {"Waiting", "XMove", "OMove"}
    THEN IF player = g.player_x
         THEN IF timestamp < g.keep_alive[0]
              THEN Err(g, "InvalidTimestamp")
              ELSE Ok([g EXCEPT !.keep_alive[0] = timestamp])
         ELSE IF player = g.player_o
              THEN IF timestamp < g.keep_alive[1]
                   THEN Err(g, "InvalidTimestamp")
                   ELSE Ok([g EXCEPT !.keep_alive[1] = timestamp])
              ELSE Err(g, "PlayerNotFound")
    ELSE Ok(g)

\* keep_alive as it would be without the two comparisons.
keep_alive_unchecked(g, player, timestamp) ==
    IF g.game_state \in {"Waiting", "XMove", "OMove"}
    THEN IF player = g.player_x
         THEN Ok([g EXCEPT !.keep_alive[0] = timestamp])
         ELSE IF player = g.player_o
              THEN Ok([g EXCEPT !.keep_alive[1] = timestamp])
              ELSE Err(g, "PlayerNotFound")
    ELSE Ok(g)

\* Game::keep_alive (the method; the field of the same name is g.keep_alive)
keep_alive_call(g, player, timestamp) ==
    IF g.game_state \in {"Waiting", "XMove", "OMove"}
    THEN IF player = g.player_x
         THEN IF timestamp <= g.keep_alive[0]
              THEN Err(g, "InvalidTimestamp")
              ELSE Ok([g EXCEPT !.keep_alive[0] = timestamp])
         ELSE IF player = g.player_o
              THEN IF timestamp <= g.keep_alive[1]
                   THEN Err(g, "InvalidTimestamp")
                   ELSE Ok([g EXCEPT !.keep_alive[1] = timestamp])
              ELSE Err(g, "PlayerNotFound")
    ELSE Ok(g)

\* The variables hold the Game g.
Holds(g) ==
    /\ keep_alive = g.keep_alive
    /\ game_state = g.game_state
    /\ player_x = g.player_x
    /\ player_o = g.player_o
    /\ board = g.board

\* The variables take the Game a call leaves behind.
Becomes(g) ==
    /\ keep_alive' = g.keep_alive
    /\ game_state' = g.game_state
    /\ player_x' = g.player_x
    /\ player_o' = g.player_o
    /\ board' = g.board

Init == \E player \in Pubkeys : Holds(create(player))

Join ==
    \E player \in Pubkeys, timestamp \in Timestamps :
        Becomes(join(self, player, timestamp).game)

NextMove ==
    \E player \in Pubkeys, x \in Coords, y \in Coords :
        Becomes(next_move(self, player, x, y).game)

KeepAlive ==
    \E player \in Pubkeys, timestamp \in Timestamps :
        Becomes(keep_alive_call(self, player, timestamp).game)

Next == Join \/ NextMove \/ KeepAlive

Spec == Init /\ [][Next]_vars

\* The Game when the player on turn keeps moving: a move that is accepted
\* (it changes the Game) is not put off for ever.
LiveSpec == Spec /\ WF_vars(NextMove)

(***************************************************************************)
(* Vocabulary of the properties.                                           *)
(***************************************************************************)

Cells == 0..(BoardLen - 1)

\* The 8 lines of the board: 3 rows, 3 columns, 2 diagonals.
Lines ==
    {{0, 1, 2}, {3, 4, 5}, {6, 7, 8},
     {0, 3, 6}, {1, 4, 7}, {2, 5, 8},
     {0, 4, 8}, {2, 4, 6}}

HasLine(b, mark) == \E l \in Lines : \A i \in l : b[i] = mark

NoEmpty(b) == \A i \in Cells : b[i] # BOARD_ITEM_FREE

Count(b, mark) == Cardinality({i \in Cells : b[i] = mark})

Terminal == game_state \in {"XWon", "OWon", "Draw"}

InTurn == game_state \in {"XMove", "OMove"}

\* The side on turn: its mark, its Won state, its identity, the other turn.
MoverMark == IF game_state = "XMove" THEN BOARD_ITEM_X ELSE BOARD_ITEM_O

MoverWon == IF game_state = "XMove" THEN "XWon" ELSE "OWon"

Mover == IF game_state = "XMove" THEN player_x ELSE player_o

OpponentTurn == IF game_state = "XMove" THEN "OMove" ELSE "XMove"

\* The cell a move at column col, row row addresses.
Index(col, row) == row * 3 + col

\* The board with the mover's mark on cell i.
Marked(i) == [board EXCEPT ![i] = MoverMark]

\* C1: every accepted move from XMove or OMove ends in the mover's Won state
\* if some line of the board with the mark placed holds three of the mover's
\* marks, and in neither XWon nor OWon if no line does.
C1_WonIffLine ==
    \A player \in Pubkeys, x \in Coords, y \in Coords :
        LET r == next_move(self, player, x, y) IN
        (InTurn /\ r.ret = "Ok") =>
            /\ HasLine(Marked(Index(x, y)), MoverMark) =>
                   r.game.game_state = MoverWon
            /\ ~HasLine(Marked(Index(x, y)), MoverMark) =>
                   r.game.game_state \notin {"XWon", "OWon"}

\* C1: O has won by an accepted move that completed a line of O marks.
C1_Witness == game_state = "OWon" /\ HasLine(board, BOARD_ITEM_O)

\* C2: an accepted move on the last Empty cell that completes a line of the
\* mover's marks ends in the mover's Won state, not in Draw.
C2_WinBeforeDraw ==
    \A player \in Pubkeys, x \in Coords, y \in Coords :
        LET r == next_move(self, player, x, y) IN
        (/\ r.ret = "Ok"
         /\ Count(board, BOARD_ITEM_FREE) = 1
         /\ HasLine(Marked(Index(x, y)), MoverMark)) =>
            r.game.game_state = MoverWon /\ r.game.game_state # "Draw"

\* C2: X has won with the move that filled the board.
C2_Witness ==
    game_state = "XWon" /\ NoEmpty(board) /\ HasLine(board, BOARD_ITEM_X)

\* C3: an accepted move that completes no line of the mover's marks ends in
\* Draw if it leaves no Empty cell, and in the opponent's turn (not Draw) if
\* an Empty cell is left.
C3_DrawIffFull ==
    \A player \in Pubkeys, x \in Coords, y \in Coords :
        LET r == next_move(self, player, x, y) IN
        (r.ret = "Ok" /\ ~HasLine(Marked(Index(x, y)), MoverMark)) =>
            IF NoEmpty(Marked(Index(x, y)))
            THEN r.game.game_state = "Draw"
            ELSE r.game.game_state = OpponentTurn

\* C3: the board was filled without a line of three.
C3_Witness ==
    /\ game_state = "Draw"
    /\ NoEmpty(board)
    /\ ~HasLine(board, BOARD_ITEM_X)
    /\ ~HasLine(board, BOARD_ITEM_O)

\* C4: a move is accepted iff the cell at index row*3+col is one of the 9
\* cells and Empty, the phase is XMove or OMove, and the mover is player_x in
\* XMove, player_o in OMove; every other move returns an error.
C4_AcceptedIff ==
    \A player \in Pubkeys, x \in Coords, y \in Coords :
        LET r == next_move(self, player, x, y)
            accepted ==
                /\ Index(x, y) \in Cells
                /\ board[Index(x, y)] = BOARD_ITEM_FREE
                /\ InTurn
                /\ game_state = "XMove" => player = player_x
                /\ game_state = "OMove" => player = player_o
        IN /\ r.ret = "Ok" <=> accepted
           /\ ~accepted => r.ret \in ProgramError

\* C4: after X's first move, with two players: a state where moves are
\* accepted (player_o on an Empty cell) and rejected for each reason but
\* the phase.
C4_Witness ==
    /\ game_state = "OMove"
    /\ player_x # player_o
    /\ \E x \in Coords, y \in Coords :
           /\ next_move(self, player_o, x, y).ret = "Ok"
           /\ next_move(self, player_x, x, y).ret = "PlayerNotFound"
    /\ \E x \in Coords, y \in Coords :
           Index(x, y) \in Cells /\ next_move(self, player_o, x, y).ret = "InvalidMove"
    /\ \E x \in Coords, y \in Coords :
           Index(x, y) \notin Cells /\ next_move(self, player_o, x, y).ret = "InvalidMove"

\* C5: a rejected move leaves the whole Game unchanged; a move by the wrong
\* identity does not flip the turn.
C5_RejectedUnchanged ==
    \A player \in Pubkeys, x \in Coords, y \in Coords :
        LET r == next_move(self, player, x, y) IN
        r.ret # "Ok" =>
            /\ r.ret \in {"InvalidMove", "NotYourTurn", "PlayerNotFound"}
            /\ r.game = self

\* C5: X is on turn after a move of each side, and the other identity's move
\* on an Empty cell is rejected.
C5_Witness ==
    /\ game_state = "XMove"
    /\ player_x # player_o
    /\ Count(board, BOARD_ITEM_O) = 1
    /\ \E x \in Coords, y \in Coords :
           next_move(self, player_o, x, y).ret = "PlayerNotFound"

\* C6: turns alternate strictly.  Every join on a Waiting Game leaves X on
\* turn; an accepted move that neither wins nor fills the board hands the
\* turn from X to O and from O to X; and with player_o = player_x
\* (self-play) that identity's move on an Empty cell is accepted in XMove and
\* in OMove alike, placing X and O in turn.
C6_TurnsAlternate ==
    /\ game_state = "Waiting" =>
           \A player \in Pubkeys, timestamp \in Timestamps :
               join(self, player, timestamp).game.game_state = "XMove"
    /\ InTurn =>
           \A player \in Pubkeys, x \in Coords, y \in Coords :
               LET r == next_move(self, player, x, y) IN
               /\ (/\ r.ret = "Ok"
                   /\ ~HasLine(r.game.board, MoverMark)
                   /\ ~NoEmpty(r.game.board)) =>
                      r.game.game_state = OpponentTurn
               /\ (/\ player_x = player_o
                   /\ player = player_x
                   /\ Index(x, y) \in Cells
                   /\ board[Index(x, y)] = BOARD_ITEM_FREE) =>
                      r.ret = "Ok" /\ r.game.board = Marked(Index(x, y))

\* C6: self-play, two moves accepted from the one identity, as X and as O,
\* and X on turn again.
C6_Witness ==
    /\ player_x = player_o
    /\ game_state = "XMove"
    /\ Count(board, BOARD_ITEM_X) = 1
    /\ Count(board, BOARD_ITEM_O) = 1

\* C7: terminal phases are absorbing: in XWon, OWon and Draw every move and
\* every join is rejected, and no operation changes the phase or a cell.
C7_TerminalAbsorbing ==
    Terminal =>
        /\ \A player \in Pubkeys, x \in Coords, y \in Coords :
               LET r == next_move(self, player, x, y) IN
               /\ r.ret \in ProgramError
               /\ r.game.game_state = game_state
               /\ r.game.board = board
        /\ \A player \in Pubkeys, timestamp \in Timestamps :
               LET r == join(self, player, timestamp) IN
               /\ r.ret \in ProgramError
               /\ r.game.game_state = game_state
               /\ r.game.board = board
        /\ \A player \in Pubkeys, timestamp \in Timestamps :
               LET r == keep_alive_call(self, player, timestamp) IN
               /\ r.game.game_state = game_state
               /\ r.game.board = board

\* C7: X has won with Empty cells left, on which moves are then refused.
C7_Witness ==
    /\ game_state = "XWon"
    /\ \E x \in Coords, y \in Coords :
           /\ Index(x, y) \in Cells
           /\ board[Index(x, y)] = BOARD_ITEM_FREE
           /\ next_move(self, player_o, x, y).ret = "NotYourTurn"

\* C8: keep_alive on a Game in XWon, OWon or Draw returns Ok and leaves every
\* field unchanged, for every identity and every timestamp.
C8_KeepAliveTerminalNoOp ==
    Terminal =>
        \A player \in Pubkeys, timestamp \in Timestamps :
            LET r == keep_alive_call(self, player, timestamp) IN
            r.ret = "Ok" /\ r.game = self

\* C8: a finished Game, an identity that is neither player, and a stored
\* timestamp that no supplied timestamp exceeds.
C8_Witness ==
    /\ Terminal
    /\ \E player \in Pubkeys : player # player_x /\ player # player_o
    /\ keep_alive[0] = MaxTime

\* C9: join on a Waiting Game with a timestamp not above keep_alive[1] returns
\* InvalidTimestamp and still leaves the Game joined: player_o is the joiner,
\* the phase is XMove, keep_alive and all else are as before; after it every
\* join returns GameInProgress and player_x's moves are accepted.
C9_FailedJoinStillJoins ==
    game_state = "Waiting" =>
        \A player \in Pubkeys, timestamp \in Timestamps :
            timestamp <= keep_alive[1] =>
                LET r == join(self, player, timestamp) IN
                /\ r.ret = "InvalidTimestamp"
                /\ r.game = [self EXCEPT !.player_o = player, !.game_state = "XMove"]
                /\ \A p2 \in Pubkeys, t2 \in Timestamps :
                       join(r.game, p2, t2).ret = "GameInProgress"
                /\ \A x \in Coords, y \in Coords :
                       Index(x, y) \in Cells =>
                           next_move(r.game, player_x, x, y).ret = "Ok"

\* C9: the join failed (keep_alive[1] still is 0, which no successful join
\* leaves behind) and player_x has moved since.
C9_Witness ==
    /\ game_state = "OMove"
    /\ keep_alive[1] = 0
    /\ Count(board, BOARD_ITEM_X) = 1

\* C10: join on a Game that is not Waiting returns GameInProgress and changes
\* nothing, whoever joins with whatever timestamp.
C10_JoinInProgress ==
    game_state # "Waiting" =>
        \A player \in Pubkeys, timestamp \in Timestamps :
            join(self, player, timestamp) = Err(self, "GameInProgress")

\* C10: a joined Game under way, and an identity other than player_o whose
\* join would replace it.
C10_Witness ==
    /\ game_state = "XMove"
    /\ Count(board, BOARD_ITEM_O) = 2
    /\ \E player \in Pubkeys : player # player_o

\* C11: keep_alive in Waiting, XMove or OMove.  The side the player matches is
\* X if it equals player_x, else O if it equals player_o.  With a timestamp
\* not above that side's keep_alive entry the call returns InvalidTimestamp
\* and changes nothing; with a greater one it returns Ok and sets that entry
\* and nothing else; a player that equals neither returns PlayerNotFound and
\* changes nothing.
C11_KeepAliveStrictlyIncreases ==
    ~Terminal =>
        \A player \in Pubkeys, timestamp \in Timestamps :
            LET r == keep_alive_call(self, player, timestamp)
                side == IF player = player_x THEN 0 ELSE 1
            IN IF player # player_x /\ player # player_o
               THEN r = Err(self, "PlayerNotFound")
               ELSE IF timestamp <= keep_alive[side]
                    THEN r = Err(self, "InvalidTimestamp")
                    ELSE /\ r.ret = "Ok"
                         /\ r.game.keep_alive[side] = timestamp
                         /\ r.game.keep_alive[1 - side] = keep_alive[1 - side]
                         /\ r.game.board = board
                         /\ r.game.game_state = game_state
                         /\ r.game.player_x = player_x
                         /\ r.game.player_o = player_o

\* C11: a Game under way in which X has proved liveness (only a successful
\* keep_alive sets keep_alive[0]), so that a repeated timestamp is refused,
\* and in which O's entry can still be raised.
C11_Witness ==
    /\ game_state = "OMove"
    /\ player_x # player_o
    /\ keep_alive[0] = 1
    /\ keep_alive[1] = 0
    /\ keep_alive_call(self, player_x, 1).ret = "InvalidTimestamp"
    /\ keep_alive_call(self, player_o, 1).ret = "Ok"

\* C12: no step lowers keep_alive[0] or keep_alive[1].
C12_TimestampsNeverDecrease ==
    [][/\ keep_alive'[0] >= keep_alive[0]
       /\ keep_alive'[1] >= keep_alive[1]]_vars

\* C12: both entries have been raised to the largest timestamp.
C12_Witness == keep_alive[0] = MaxTime /\ keep_alive[1] = MaxTime

\* C13: the number of X marks less the number of O marks is 0 or 1.
C13_MarkCounts ==
    Count(board, BOARD_ITEM_X) - Count(board, BOARD_ITEM_O) \in {0, 1}

\* C13: three X marks and two O marks are on the board.
C13_Witness ==
    Count(board, BOARD_ITEM_X) = 3 /\ Count(board, BOARD_ITEM_O) = 2

\* C14: no join, move or keep_alive changes a cell that is not Empty, and an
\* accepted move changes exactly one cell, from Empty to the mover's mark.
C14_CellsKeepTheirMark ==
    LET kept(b) == \A i \in Cells : board[i] # BOARD_ITEM_FREE => b[i] = board[i]
    IN /\ \A player \in Pubkeys, timestamp \in Timestamps :
              /\ kept(join(self, player, timestamp).game.board)
              /\ kept(keep_alive_call(self, player, timestamp).game.board)
       /\ \A player \in Pubkeys, x \in Coords, y \in Coords :
              LET r == next_move(self, player, x, y) IN
              /\ kept(r.game.board)
              /\ r.ret = "Ok" =>
                     \E i \in Cells :
                         /\ board[i] = BOARD_ITEM_FREE
                         /\ r.game.board[i] = MoverMark
                         /\ \A j \in Cells \ {i} : r.game.board[j] = board[j]

\* C14: X is on turn with two marks of each side on the board.
C14_Witness ==
    /\ game_state = "XMove"
    /\ Count(board, BOARD_ITEM_X) = 2
    /\ Count(board, BOARD_ITEM_O) = 2

\* C15: the error of a move is decided in a fixed order: an index outside the
\* 9 cells or a cell that is not Empty gives InvalidMove in every phase and
\* for every player; otherwise a phase other than XMove and OMove gives
\* NotYourTurn; otherwise a player who is not the side on turn gives
\* PlayerNotFound.
C15_ErrorOrder ==
    \A player \in Pubkeys, x \in Coords, y \in Coords :
        LET r == next_move(self, player, x, y) IN
        IF Index(x, y) \notin Cells \/ board[Index(x, y)] # BOARD_ITEM_FREE
        THEN r.ret = "InvalidMove"
        ELSE IF ~InTurn
             THEN r.ret = "NotYourTurn"
             ELSE player # Mover => r.ret = "PlayerNotFound"

\* C15: X has won; O's move on an Empty cell gives NotYourTurn and O's move
\* on a taken cell gives InvalidMove.
C15_Witness ==
    /\ game_state = "XWon"
    /\ player_x # player_o
    /\ \E x \in Coords, y \in Coords :
           next_move(self, player_o, x, y).ret = "NotYourTurn"
    /\ \E x \in Coords, y \in Coords :
           /\ Index(x, y) \in Cells
           /\ next_move(self, player_o, x, y).ret = "InvalidMove"

\* C16: a move with col >= 3 or row >= 3 is rejected with InvalidMove.
C16_OutOfRangeRejected ==
    \A player \in Pubkeys, x \in Coords, y \in Coords :
        (x >= 3 \/ y >= 3) => next_move(self, player, x, y).ret = "InvalidMove"

\* C17: the phase agrees with the lines on the board: XWon iff a line holds
\* three X, OWon iff a line holds three O, never both; Draw iff no cell is
\* Empty and no line holds three equal marks; in Waiting, XMove and OMove no
\* line holds three equal marks and a cell is Empty.
C17_PhaseAgreesWithLines ==
    /\ game_state = "XWon" <=> HasLine(board, BOARD_ITEM_X)
    /\ game_state = "OWon" <=> HasLine(board, BOARD_ITEM_O)
    /\ ~(HasLine(board, BOARD_ITEM_X) /\ HasLine(board, BOARD_ITEM_O))
    /\ game_state = "Draw" <=>
           /\ NoEmpty(board)
           /\ ~HasLine(board, BOARD_ITEM_X)
           /\ ~HasLine(board, BOARD_ITEM_O)
    /\ game_state \in {"Waiting", "XMove", "OMove"} =>
           /\ ~HasLine(board, BOARD_ITEM_X)
           /\ ~HasLine(board, BOARD_ITEM_O)
           /\ ~NoEmpty(board)

\* C17: X has won with its third mark.
C17_Witness ==
    /\ game_state = "XWon"
    /\ HasLine(board, BOARD_ITEM_X)
    /\ Count(board, BOARD_ITEM_X) = 3

\* C18: the phase agrees with the mark counts: in Waiting the board is all
\* Empty and player_o is unset; X and O marks are equal in number in XMove
\* and OWon, X has one more in OMove and XWon; in Draw there are 5 X and 4 O;
\* and only a move of player_x in XMove enters Draw.
C18_PhaseAgreesWithCounts ==
    LET cx == Count(board, BOARD_ITEM_X)
        co == Count(board, BOARD_ITEM_O)
    IN /\ game_state = "Waiting" =>
              Count(board, BOARD_ITEM_FREE) = BoardLen /\ player_o = 0
       /\ game_state \in {"XMove", "OWon"} => cx = co
       /\ game_state \in {"OMove", "XWon"} => cx = co + 1
       /\ game_state = "Draw" => cx = 5 /\ co = 4
       /\ game_state # "Draw" =>
              \A player \in Pubkeys, x \in Coords, y \in Coords :
                  next_move(self, player, x, y).game.game_state = "Draw" =>
                      game_state = "XMove" /\ player = player_x

\* C18: O has won, with three marks of each side on the board.
C18_Witness ==
    /\ game_state = "OWon"
    /\ Count(board, BOARD_ITEM_X) = 3
    /\ Count(board, BOARD_ITEM_O) = 3

\* What C19 says of every state: an accepted move leaves one Empty cell less;
\* a board with no Empty cell (9 moves accepted) is in a terminal phase; and
\* in XMove and OMove the player on turn has a move that is accepted.
C19_Bounded ==
    /\ \A player \in Pubkeys, x \in Coords, y \in Coords :
           LET r == next_move(self, player, x, y) IN
           r.ret = "Ok" =>
               Count(r.game.board, BOARD_ITEM_FREE) =
                   Count(board, BOARD_ITEM_FREE) - 1
    /\ NoEmpty(board) => Terminal
    /\ InTurn =>
           \E x \in Coords, y \in Coords :
               next_move(self, Mover, x, y).ret = "Ok"

\* C19: every Game ends within 9 accepted moves: C19_Bounded holds throughout,
\* and when accepted moves are not put off for ever a joined Game reaches
\* XWon, OWon or Draw.
C19_Terminates ==
    /\ []C19_Bounded
    /\ (game_state # "Waiting") ~> Terminal

\* C19: a Game that ended with the 9th accepted move.
C19_Witness == Terminal /\ Count(board, BOARD_ITEM_FREE) = 0

\* C20: while the phase is Waiting, keep_alive by every identity other than
\* player_x returns PlayerNotFound and changes nothing, keep_alive[1] is 0,
\* and every join with a timestamp of at least 1 returns Ok.
C20_NoSecondPlayerWhileWaiting ==
    game_state = "Waiting" =>
        /\ \A player \in Pubkeys \ {player_x}, timestamp \in Timestamps :
               keep_alive_call(self, player, timestamp) =
                   Err(self, "PlayerNotFound")
        /\ keep_alive[1] = 0
        /\ \A player \in Pubkeys, timestamp \in Timestamps \ {0} :
               join(self, player, timestamp).ret = "Ok"

====
